---- MODULE Spec2Model ----
(***************************************************************************)
(* A model of app.py: the synthetic view-trajectory generator, the        *)
(* percentile-band benchmark, the projection and the ranking step, and    *)
(* the main flow that chains them.                                        *)
(*                                                                        *)
(* Numbers.  Python floats are modelled in fixed point:                   *)
(*   - a view value is an integer number of 1/FP views;                   *)
(*   - a shape value (a number in [0,1]) is an integer number of 1/SS;    *)
(*   - a band value (a pandas quantile) is an integer number of 1/100     *)
(*     views, which is exact because the quantile levels are multiples of *)
(*     1/100.                                                             *)
(* int(x) on a non-negative float is the floor, x \div FP here.  The      *)
(* rounding of the floating-point operations themselves is not modelled.  *)
(*                                                                        *)
(* Dates.  A video carries its age in days, (today - publish_date).days,  *)
(* in place of publishedAt; InvalidDate stands for a publishedAt that     *)
(* datetime.fromisoformat rejects.                                        *)
(*                                                                        *)
(* The API.  In a run of the main flow the YouTube API holds a channel of *)
(* 8 to 10 uploads and answers a request with that data or fails; pages   *)
(* and detail chunks hold PageSize and ChunkSize ids (50 in the source).  *)
(*                                                                        *)
(* Specifications.  Spec is one run of the main flow from the button      *)
(* press.  SpecGen, SpecBench and SpecRank run generate_view_trajectory,  *)
(* calculate_benchmark and the ranking step on arguments drawn from       *)
(* bounded sets; SpecFetch runs fetch_channel_videos against an API that  *)
(* answers every page request arbitrarily.                                *)
(***************************************************************************)
EXTENDS Integers, Sequences, FiniteSets

\* ------------------------------------------------------------------ bounds
FP == 10            \* fixed-point units per view
SS == 1000          \* fixed-point units of a shape value
MaxDays == 3        \* largest number of days a trajectory is generated for
MaxViews == 300     \* largest view count of a video
NoiseMax == 1       \* noise is drawn from -NoiseMax..NoiseMax standard deviations
MaxBenchVideos == 4 \* trajectories in a direct call of calculate_benchmark
MaxRankRows == 2    \* band rows in a direct run of the ranking step

VARIABLES
    pc,             \* position of the run, or of a direct call
    traj_args,      \* arguments of a direct call of generate_view_trajectory
    traj_noise,     \* the noise values drawn during that call, one per day
    traj_data,      \* the list of points that call returned
    percentile_range,   \* sidebar slider "Percentile Range for Band"
    benchmark_df,       \* rows of all reference trajectories, as a list
    quantile_levels,    \* the levels calculate_benchmark passed to quantile()
    benchmark_stats,    \* the band rows returned by calculate_benchmark
    video_details,      \* the target video, as fetch_single_video returned it
    percentile,         \* the rank label
    performance_color,  \* the colour of the rank label and of the ratio
    vs_benchmark_str,   \* the ratio against the band median
    video_type,         \* sidebar radio "Video Type to Compare Against"
    max_days,           \* sidebar slider "Days to Analyze"
    max_videos,         \* sidebar slider "Number of videos to include", the
                        \* argument max_videos of fetch_channel_videos
    api,                \* what the YouTube API holds: the target video and
                        \* the channel's uploads with their details
    videos,             \* the list fetch_channel_videos is filling
    next_page_token,    \* its page token: "" at first, None at the end
    channel_videos,     \* the upload list fetch_channel_videos returned
    detailed_videos,    \* the dict fetch_video_details returned
    is_short_filter,    \* "True", "False" or "None"
    gen_todo,           \* videos generate_historical_data has yet to visit
    video_performance,  \* the series simulate_video_performance returned
    st_errors,          \* st.error messages shown, in order
    st_warnings         \* st.warning messages shown

genVars == <<traj_args, traj_noise, traj_data>>
inputVars == <<percentile_range, video_type, max_days, max_videos, api>>
pageVars == <<videos, next_page_token>>
fetchVars == <<video_details, channel_videos, detailed_videos>>
rankVars == <<percentile, performance_color, vs_benchmark_str>>
msgVars == <<st_errors, st_warnings>>

vars == <<pc, genVars, inputVars, pageVars, fetchVars, rankVars, msgVars,
          is_short_filter, gen_todo, benchmark_df, quantile_levels,
          benchmark_stats, video_performance>>

\* ------------------------------------------------------- numeric helpers
Max(a, b) == IF a >= b THEN a ELSE b
Min(a, b) == IF a <= b THEN a ELSE b

\* floor of the square root
ISqrt(n) == CHOOSE r \in 0..(SS + 1) : r * r <= n /\ (r + 1) * (r + 1) > n

\* exp(y/SS)*SS for y >= 0, by its power series, truncated when a term is 0
RECURSIVE ExpSeries(_, _, _, _)
ExpSeries(y, n, term, acc) ==
    IF term = 0 THEN acc
    ELSE ExpSeries(y, n + 1, (term * y) \div (SS * n), acc + term)

\* np.exp(z) for a fixed-point z of either sign
Exp(z) == IF z >= 0 THEN ExpSeries(z, 1, SS, 0)
          ELSE (SS * SS) \div ExpSeries(-z, 1, SS, 0)

\* (i+1)/days
DayFraction(i, days) == ((i + 1) * SS) \div days

\* x ** 1.5
Pow15(x) == (x * ISqrt(x * SS)) \div SS

\* 1 - np.exp(-5 * ((i+1)/days)**1.5)
ShortShape(i, days) == SS - Exp(-(5 * Pow15(DayFraction(i, days))))

\* 1 / (1 + np.exp(-k * ((i+1)/days - 0.35))), k = 10
LongShape(i, days) ==
    (SS * SS) \div (SS + Exp(-(10 * (DayFraction(i, days) - (35 * SS) \div 100))))

Shape(is_short, i, days) ==
    IF is_short THEN ShortShape(i, days) ELSE LongShape(i, days)

\* ------------------------------------------- generate_view_trajectory
\* trajectory = [total_views * shape(i) for i in range(days)], in 1/SS views
RawTrajectory(days, total_views, is_short) ==
    [k \in 1..days |-> total_views * Shape(is_short, k - 1, days)]

\* scaling_factor = total_views / trajectory[-1] if trajectory[-1] > 0 else 1
\* trajectory = [v * scaling_factor for v in trajectory], in 1/FP views
ScaledTrajectory(days, total_views, is_short) ==
    LET raw == RawTrajectory(days, total_views, is_short)
    IN  [k \in 1..days |->
            IF raw[days] > 0
            THEN (raw[k] * (total_views * FP)) \div raw[days]
            ELSE (raw[k] * FP) \div SS]

\* the standard deviation noise_factor * total_views, noise_factor = 0.05
Sigma(total_views) == (5 * total_views * FP) \div 100

\* the values np.random.normal(0, sigma) is drawn from here
NoiseSet(total_views) ==
    {m * Sigma(total_views) : m \in (-NoiseMax)..NoiseMax}

\* noisy_value of day i: max(100, trajectory[0] + noise) on day 0,
\* max(trajectory[i-1] + 10, trajectory[i] + noise) after it, where prev is
\* the already adjusted trajectory[i-1]
NoisyValueUnfloored(i, prev, cur, noise) == cur + noise

NoisyValue(i, prev, cur, noise) ==
    IF i = 0 THEN Max(100 * FP, cur + noise)
    ELSE Max(prev + 10 * FP, cur + noise)

\* the loop "for i in range(days)" that overwrites trajectory[i] in place
RECURSIVE AddNoise(_, _, _)
AddNoise(scaled, noise, k) ==
    IF k = 0 THEN << >>
    ELSE LET before == AddNoise(scaled, noise, k - 1)
             prev == IF k = 1 THEN 0 ELSE before[k - 1]
         IN  Append(before, NoisyValue(k - 1, prev, scaled[k], noise[k]))

\* daily_views = [trajectory[0]] + [trajectory[i] - trajectory[i-1] ...]
DailyViews(trajectory) ==
    [k \in 1..Len(trajectory) |->
        IF k = 1 THEN trajectory[1] ELSE trajectory[k] - trajectory[k - 1]]

\* int(x) of a non-negative float
IntOf(x) == x \div FP

\* the returned list of points; noise[k] is the value drawn for day k-1
GenerateViewTrajectory(video_id, days, total_views, is_short, noise) ==
    LET trajectory == AddNoise(ScaledTrajectory(days, total_views, is_short),
                               noise, days)
        daily == DailyViews(trajectory)
    IN  [k \in 1..days |->
            [videoId |-> video_id,
             day |-> k - 1,
             daily_views |-> IntOf(daily[k]),
             cumulative_views |-> IntOf(trajectory[k])]]

\* ------------------------------------------------- calculate_benchmark
\* the values the slider offers: min_value=10, max_value=45, step=5
SliderPercentiles == {10 + 5 * k : k \in 0..7}

\* the key set of df.groupby('day')
DaysOf(df) == {df[k].day : k \in 1..Len(df)}

\* the column 'cumulative_views' of the group of one day
RECURSIVE ValuesAt(_, _, _)
ValuesAt(df, d, k) ==
    IF k = 0 THEN << >>
    ELSE IF df[k].day = d
         THEN Append(ValuesAt(df, d, k - 1), df[k].cumulative_views)
         ELSE ValuesAt(df, d, k - 1)

RECURSIVE InsertSorted(_, _)
InsertSorted(sorted, v) ==
    IF sorted = << >> THEN <<v>>
    ELSE IF v <= Head(sorted) THEN <<v>> \o sorted
         ELSE <<Head(sorted)>> \o InsertSorted(Tail(sorted), v)

RECURSIVE SortSeq(_)
SortSeq(values) ==
    IF values = << >> THEN << >>
    ELSE InsertSorted(SortSeq(Tail(values)), Head(values))

RECURSIVE SumSeq(_)
SumSeq(values) ==
    IF values = << >> THEN 0 ELSE Head(values) + SumSeq(Tail(values))

\* Series.quantile(num/den) with its default linear interpolation, on the
\* sorted values: the result times den (exact).  The position is
\* (n-1)*num/den; its integer part picks the lower neighbour.
QuantileScaled(sorted, num, den) ==
    LET h == (Len(sorted) - 1) * num
        lo == h \div den
        fr == h % den
    IN  IF fr = 0 THEN sorted[lo + 1] * den
        ELSE sorted[lo + 1] * den + (sorted[lo + 2] - sorted[lo + 1]) * fr

\* the quantile levels of the two bands, in hundredths:
\* x.quantile(percentile_range/100) and x.quantile(1 - percentile_range/100)
LowerLevelFullWidth(range) == (100 - range) \div 2
UpperLevelSameAsLower(range) == range

LowerLevel(range) == range
UpperLevel(range) == 100 - range

\* one row of the summary; band values are in hundredths of a view
BandRow(df, d, range) ==
    LET sorted == SortSeq(ValuesAt(df, d, Len(df)))
    IN  [day |-> d,
         lower_band |-> QuantileScaled(sorted, LowerLevel(range), 100),
         upper_band |-> QuantileScaled(sorted, UpperLevel(range), 100),
         median |-> QuantileScaled(sorted, 50, 100),
         mean |-> (SumSeq(sorted) * 100) \div Len(sorted),
         count |-> Len(sorted)]

\* the groups in ascending key order (groupby sorts its keys)
RECURSIVE SortedDays(_)
SortedDays(days) ==
    IF days = {} THEN << >>
    ELSE LET d == CHOOSE x \in days : \A y \in days : x <= y
         IN  <<d>> \o SortedDays(days \ {d})

\* summary = df.groupby('day')[...].agg([...]).reset_index()
CalculateBenchmarkDescending(df, range) ==
    LET days == SortedDays(DaysOf(df))
    IN  [k \in 1..Len(days) |-> BandRow(df, days[Len(days) + 1 - k], range)]

CalculateBenchmark(df, range) ==
    LET days == SortedDays(DaysOf(df))
    IN  [k \in 1..Len(days) |-> BandRow(df, days[k], range)]

NoLevels == [lower |-> -1, upper |-> -1]

CalculateBenchmarkStep ==
    /\ pc = "benchmark"
    /\ quantile_levels' = [lower |-> LowerLevel(percentile_range),
                           upper |-> UpperLevel(percentile_range)]
    /\ benchmark_stats' = CalculateBenchmark(benchmark_df, percentile_range)
    /\ pc' = "simulate"
    /\ UNCHANGED <<pageVars, genVars, inputVars, fetchVars, rankVars, msgVars,
                   is_short_filter, gen_todo, benchmark_df,
                   video_performance>>

\* ------------------------------------------ performance analysis (rank)
NoArgs == [days |-> 0, total_views |-> 0, is_short |-> FALSE]
NoVideo == [videoId |-> 0, isShort |-> FALSE, age |-> 0, viewCount |-> 0]
NoLabel == [kind |-> "", n |-> 0]
NoRatio == [kind |-> "", tenths |-> 0]

\* num/den rounded to the nearest integer, ties to even, as the format
\* specifications ':.0f' and ':+.1f' round; den > 0
RoundDiv(num, den) ==
    LET q == num \div den
        r == num - q * den
    IN  IF 2 * r < den THEN q
        ELSE IF 2 * r > den THEN q + 1
        ELSE IF q % 2 = 0 THEN q ELSE q + 1

\* day_index = min(days_since_publish, len(benchmark_stats) - 1), at least 0
DayIndex(days_since_publish, stats) ==
    LET d == Min(days_since_publish, Len(stats) - 1)
    IN  IF d < 0 THEN 0 ELSE d

\* the if/elif/else that sets percentile and performance_color; views and
\* the band values are in hundredths of a view
RankingStrict(views, lower, upper, range) ==
    IF views > upper
    THEN [label |-> [kind |-> "Top", n |-> 100 - range], color |-> "green"]
    ELSE IF views < lower
    THEN [label |-> [kind |-> "Bottom", n |-> range], color |-> "red"]
    ELSE IF upper - lower > 0
         THEN [label |-> [kind |-> "th percentile",
                          n |-> RoundDiv(range * (upper - lower)
                                   + (views - lower) * (100 - 2 * range),
                                   upper - lower)],
               color |-> "orange"]
         ELSE [label |-> [kind |-> "Average", n |-> 0], color |-> "gray"]

Ranking(views, lower, upper, range) ==
    IF views >= upper
    THEN [label |-> [kind |-> "Top", n |-> 100 - range], color |-> "green"]
    ELSE IF views <= lower
    THEN [label |-> [kind |-> "Bottom", n |-> range], color |-> "red"]
    ELSE IF upper - lower > 0
         THEN [label |-> [kind |-> "th percentile",
                          n |-> RoundDiv(range * (upper - lower)
                                   + (views - lower) * (100 - 2 * range),
                                   upper - lower)],
               color |-> "orange"]
         ELSE [label |-> [kind |-> "Average", n |-> 0], color |-> "gray"]

\* vs_benchmark_str: the signed percentage in tenths of a percent, or "N/A"
VsBenchmarkUnguarded(views, median) ==
    [kind |-> "pct vs typical",
     tenths |-> IF median = 0 THEN 0
                ELSE IF median > 0
                     THEN RoundDiv(1000 * (views - median), median)
                     ELSE RoundDiv(1000 * (median - views), -median)]

VsBenchmark(views, median) ==
    IF median > 0
    THEN [kind |-> "pct vs typical",
          tenths |-> RoundDiv(1000 * (views - median), median)]
    ELSE [kind |-> "N/A", tenths |-> 0]

\* the band row the ranking step reads
RankRow == benchmark_stats[DayIndex(video_details.age, benchmark_stats) + 1]

RankStep ==
    /\ pc = "rank"
    /\ LET r == Ranking(video_details.viewCount * 100, RankRow.lower_band,
                        RankRow.upper_band, percentile_range)
       IN  /\ percentile' = r.label
           /\ performance_color' = r.color
    /\ vs_benchmark_str' = VsBenchmark(video_details.viewCount * 100,
                                       RankRow.median)
    /\ pc' = "done"
    /\ UNCHANGED <<pageVars, genVars, inputVars, fetchVars, msgVars, is_short_filter,
                   gen_todo, benchmark_df, quantile_levels, benchmark_stats,
                   video_performance>>

\* ------------------------------------------- simulate_video_performance
\* the multipliers, in hundredths, np.random.uniform(0.98, 1.02) is drawn from
JitterChoices == {98, 100, 102}

\* days_since_publish, at least 2 ("Minimum to establish a trend")
UnclampedAge(age) == age

ClampedAge(age) == IF age < 2 THEN 2 ELSE age

\* days_to_project = max(days_since_publish, min(max_days, 90))
DaysToProject(age, days) == Max(ClampedAge(age), Min(days, 90))

\* performance_ratio as the fraction num/den: current_views over the band
\* median at the video's age when that row exists and its median is
\* positive, else 1.0; medians are in hundredths of a view, so is num
PerformanceRatio(video, stats) ==
    LET dsp == ClampedAge(video.age)
    IN  IF dsp < Len(stats) /\ stats[dsp + 1].median > 0
        THEN [num |-> video.viewCount * 100, den |-> stats[dsp + 1].median]
        ELSE [num |-> 100, den |-> 100]

\* benchmark_views * performance_ratio, as the fraction num/den of a view
ScaledMedian(median, ratio) ==
    [num |-> median * (ratio.num \div 100), den |-> ratio.den]

\* cumulative_views of one of the days that have passed: the current views
\* on the current day, the scaled median before it, times the jitter, as int
PastValue(day, video, stats, jitter) ==
    LET dsp == ClampedAge(video.age)
        ratio == PerformanceRatio(video, stats)
        v == IF day = dsp THEN [num |-> video.viewCount, den |-> 1]
             ELSE ScaledMedian(stats[day + 1].median, ratio)
    IN  (v.num * jitter) \div (v.den * 100)

\* projected_views = int(benchmark_views * performance_ratio)
ProjectedValue(day, video, stats) ==
    LET v == ScaledMedian(stats[day + 1].median,
                          PerformanceRatio(video, stats))
    IN  v.num \div v.den

\* the rows of days 0..last; jitter[k] is the multiplier drawn for day k-1
RECURSIVE SimulateRows(_, _, _, _, _)
SimulateRows(last, video, stats, days, jitter) ==
    IF last < 0 THEN << >>
    ELSE LET before == SimulateRows(last - 1, video, stats, days, jitter)
             past == last <= ClampedAge(video.age)
             cum == IF past THEN PastValue(last, video, stats, jitter[last + 1])
                    ELSE ProjectedValue(last, video, stats)
             daily == IF last = 0 THEN cum
                      ELSE Max(0, cum - before[last].cumulative_views)
         IN  Append(before, [day |-> last, daily_views |-> daily,
                             cumulative_views |-> cum, projected |-> ~past])

\* the last day the two loops reach: both stop at the end of the band, the
\* first at days_since_publish, the second at days_to_project
LastSimulatedDay(video, stats, days) ==
    Min(DaysToProject(video.age, days), Len(stats) - 1)

SimulateVideoPerformance(video, stats, days, jitter) ==
    SimulateRows(LastSimulatedDay(video, stats, days), video, stats, days,
                 jitter)

\* the number of days the first loop draws a jitter value for
PastDays(video, stats) == Min(ClampedAge(video.age), Len(stats) - 1) + 1

SimulateStep ==
    /\ pc = "simulate"
    /\ \E jitter \in [1..PastDays(video_details, benchmark_stats)
                          -> JitterChoices] :
          video_performance' = SimulateVideoPerformance(video_details,
                                  benchmark_stats, max_days, jitter)
    /\ pc' = "rank"
    /\ UNCHANGED <<pageVars, genVars, inputVars, fetchVars, rankVars, msgVars,
                   is_short_filter, gen_todo, benchmark_df, quantile_levels,
                   benchmark_stats>>

\* ------------------------------------------------------------ main flow
MinTypeCount == 5       \* "shorts_count < 5", "longform_count < 5"
MinAgeDays == 3         \* "if video_age_days < 3: continue"
MinMaxDays == 7         \* min_value of the slider "Days to Analyze"
MinNumVideos == 10      \* min_value of "Number of videos to include"
InvalidDate == -1       \* a publishedAt that fromisoformat rejects

E_CHANNEL_ID == "Could not extract a valid channel ID from the provided URL."
E_VIDEO_ID == "Could not extract a valid video ID from the provided URL."
E_FETCH_VIDEO == "Failed to fetch video details. Please check the video URL."
E_FETCH_CHANNEL == "Failed to fetch channel videos. Please check the channel URL."
E_NO_DATA == "Not enough data to create a benchmark."
E_RESOLVE == "Error resolving channel identifier"
E_VIDEO_DETAILS == "Error fetching video details"
E_INVALID_CHANNEL == "Invalid Channel ID or no uploads found."
E_YT_DATA == "Error fetching YouTube data"
W_OTHER_CHANNEL == "The video belongs to a different channel."
W_DETAILS == "Error fetching details for some videos"
W_FEW_SHORTS == "Not enough Shorts in this channel. Using all videos instead."
W_FEW_LONG == "Not enough Long-form videos in this channel. Using all videos instead."

\* st.error for each message in turn, then st.stop()
ReportAndGoOn(msgs) ==
    /\ st_errors' = st_errors \o msgs
    /\ pc' = "generate"

Stop(msgs) ==
    /\ st_errors' = st_errors \o msgs
    /\ pc' = "stopped"

\* extract_channel_id / extract_video_id and the two checks after them; the
\* channel lookup finds an id, finds none, or raises inside
\* get_channel_id_from_identifier, which reports it and returns None
ExtractIds ==
    /\ pc = "extract"
    /\ \E channel_id \in {"found", "none", "error"}, video_id_found \in BOOLEAN :
          IF channel_id = "error" THEN Stop(<<E_RESOLVE, E_CHANNEL_ID>>)
          ELSE IF channel_id = "none" THEN Stop(<<E_CHANNEL_ID>>)
          ELSE IF ~video_id_found THEN Stop(<<E_VIDEO_ID>>)
          ELSE pc' = "fetch_video" /\ UNCHANGED st_errors
    /\ UNCHANGED <<pageVars, genVars, inputVars, fetchVars, rankVars, st_warnings,
                   is_short_filter, gen_todo, benchmark_df, quantile_levels,
                   benchmark_stats, video_performance>>

\* Step 1: fetch_single_video and the channel check; the response has the
\* video, has no items, or the request raises
FetchSingleVideo ==
    /\ pc = "fetch_video"
    /\ \E response \in {"found", "no_items", "error"} :
          IF response /= "found"
          THEN /\ Stop(IF response = "error"
                       THEN <<E_VIDEO_DETAILS, E_FETCH_VIDEO>>
                       ELSE <<E_FETCH_VIDEO>>)
               /\ UNCHANGED <<pageVars, video_details, st_warnings>>
          ELSE /\ video_details' = api.video
               /\ st_warnings' = IF api.video.videoId \in DOMAIN api.uploads
                                 THEN st_warnings
                                 ELSE st_warnings \cup {W_OTHER_CHANNEL}
               /\ pc' = "fetch_channel"
               /\ UNCHANGED st_errors
    /\ UNCHANGED <<pageVars, genVars, inputVars, channel_videos, detailed_videos,
                   rankVars, is_short_filter, gen_todo, benchmark_df,
                   quantile_levels, benchmark_stats, video_performance>>

\* the values of next_page_token: None, the initial "", and the tokens of
\* the API, the token k standing for "the page after k pages"
NoToken == -1
FirstPage == 0
MaxToken == 2
PageTokens == {NoToken} \cup FirstPage..MaxToken

\* the number of items of a full page; the source asks for maxResults=50,
\* the channels of the model are smaller
PageSize == 5

\* the page of the uploads playlist a well-behaved API returns for a token
\* ("if next_page_token" is false for "": that request gets the first page)
UploadsPage(token) ==
    LET offset == token * PageSize
        n == Len(api.uploads)
    IN  [items |-> [k \in 1..Max(0, Min(PageSize, n - offset)) |-> offset + k],
         nextPageToken |-> IF offset + PageSize < n THEN token + 1
                           ELSE NoToken]

\* the responses a request for a playlist page can get: the page of the
\* uploads, or, from an API that answers arbitrarily, any number of items
\* up to a full page with any token or none
PageResponses(token) ==
    IF api.playlist = "uploads" THEN {UploadsPage(token)}
    ELSE {[items |-> [k \in 1..c |-> Len(videos) + k], nextPageToken |-> t] :
             c \in 0..PageSize, t \in PageTokens}

\* the items of a page the for loop appends before its break
Appended(items, list, max) ==
    SubSeq(items, 1, Min(Len(items), max - Len(list)))

\* "while len(videos) < max_videos and next_page_token is not None"
MorePages(list, max, token) == Len(list) < max /\ token /= NoToken

\* Step 2: fetch_channel_videos up to its loop; the channel response has
\* no items, the request raises, or the uploads playlist is found
FetchChannelVideos ==
    /\ pc = "fetch_channel"
    /\ \E response \in {"found", "no_items", "error"} :
          IF response /= "found"
          THEN /\ Stop(IF response = "no_items"
                       THEN <<E_INVALID_CHANNEL, E_FETCH_CHANNEL>>
                       ELSE <<E_YT_DATA, E_FETCH_CHANNEL>>)
               /\ UNCHANGED pageVars
          ELSE /\ videos' = << >>
               /\ next_page_token' = FirstPage
               /\ pc' = "fetch_pages"
               /\ UNCHANGED st_errors
    /\ UNCHANGED <<genVars, inputVars, fetchVars, rankVars, st_warnings,
                   is_short_filter, gen_todo, benchmark_df, quantile_levels,
                   benchmark_stats, video_performance>>

\* one iteration of the while loop: the request raises, which ends the
\* function with None and the run with an error, or it is answered
FetchPage ==
    /\ pc = "fetch_pages"
    /\ MorePages(videos, max_videos, next_page_token)
    /\ \/ /\ Stop(<<E_YT_DATA, E_FETCH_CHANNEL>>)
          /\ UNCHANGED pageVars
       \/ /\ \E response \in PageResponses(next_page_token) :
                /\ videos' = videos \o Appended(response.items, videos,
                                                 max_videos)
                /\ next_page_token' = response.nextPageToken
          /\ UNCHANGED <<pc, st_errors>>
    /\ UNCHANGED <<genVars, inputVars, fetchVars, rankVars, st_warnings,
                   is_short_filter, gen_todo, benchmark_df, quantile_levels,
                   benchmark_stats, video_performance>>

\* the end of the loop, "return videos, ..." and "if not channel_videos"
FetchChannelReturn ==
    /\ pc = "fetch_pages"
    /\ ~MorePages(videos, max_videos, next_page_token)
    /\ channel_videos' = videos
    /\ IF videos = << >> THEN Stop(<<E_FETCH_CHANNEL>>)
       ELSE pc' = "fetch_details" /\ UNCHANGED st_errors
    /\ UNCHANGED <<genVars, inputVars, pageVars, video_details,
                   detailed_videos, rankVars, st_warnings, is_short_filter,
                   gen_todo, benchmark_df, quantile_levels, benchmark_stats,
                   video_performance>>

\* fetch_video_details asks for the details in chunks of video_ids; the
\* source's chunks hold 50 ids, the channels of the model are smaller
ChunkSize == 5

\* len(video_chunks)
NumChunks(n) == (n + ChunkSize - 1) \div ChunkSize

\* the chunk (from 1) that holds the id at position k (from 1) of video_ids
ChunkOf(k) == ((k - 1) \div ChunkSize) + 1

\* what a request for one chunk does: it answers with the items, it answers
\* without an 'items' key (nothing is stored, nothing is reported), or it
\* raises (the except clause warns, the loop goes on with the next chunk)
ChunkOutcomes == {"ok", "no_items", "error"}

\* all_details: the details of the ids of the chunks that were answered
AllDetails(video_ids, outcome) ==
    [id \in {video_ids[k] : k \in {j \in DOMAIN video_ids :
                                        outcome[ChunkOf(j)] = "ok"}}
        |-> api.uploads[id]]

\* Step 3, first part: fetch_video_details over video_ids, every chunk with
\* its own outcome
FetchVideoDetailsStopOnError ==
    /\ pc = "fetch_details"
    /\ \E outcome \in [1..NumChunks(Len(channel_videos)) -> ChunkOutcomes] :
          /\ detailed_videos' = AllDetails(channel_videos, outcome)
          /\ IF \E c \in DOMAIN outcome : outcome[c] = "error"
             THEN /\ st_warnings' = st_warnings \cup {W_DETAILS}
                  /\ pc' = "stopped"
             ELSE /\ UNCHANGED st_warnings
                  /\ pc' = "select_filter"
    /\ UNCHANGED <<pageVars, genVars, inputVars, video_details, channel_videos,
                   rankVars, st_errors, is_short_filter, gen_todo,
                   benchmark_df, quantile_levels, benchmark_stats,
                   video_performance>>

FetchVideoDetails ==
    /\ pc = "fetch_details"
    /\ \E outcome \in [1..NumChunks(Len(channel_videos)) -> ChunkOutcomes] :
          /\ detailed_videos' = AllDetails(channel_videos, outcome)
          /\ st_warnings' = IF \E c \in DOMAIN outcome : outcome[c] = "error"
                            THEN st_warnings \cup {W_DETAILS}
                            ELSE st_warnings
    /\ pc' = "select_filter"
    /\ UNCHANGED <<pageVars, genVars, inputVars, video_details, channel_videos,
                   rankVars, st_errors, is_short_filter, gen_todo,
                   benchmark_df, quantile_levels, benchmark_stats,
                   video_performance>>

BoolStr(b) == IF b THEN "True" ELSE "False"

\* shorts_count and longform_count
ShortsCount(details) ==
    Cardinality({k \in DOMAIN details : details[k].isShort})
LongformCount(details) ==
    Cardinality(DOMAIN details) - ShortsCount(details)

\* the filter the selectbox asks for
RequestedFilter(type, video) ==
    IF type = "auto" THEN BoolStr(video.isShort)
    ELSE IF type = "shorts" THEN "True"
    ELSE IF type = "long_form" THEN "False"
    ELSE "None"

\* the fallback to all videos when fewer than 5 are of the requested type
EffectiveFilterNoFallback(requested, details) == requested

EffectiveFilter(requested, details) ==
    IF requested = "True" /\ ShortsCount(details) < MinTypeCount THEN "None"
    ELSE IF requested = "False" /\ LongformCount(details) < MinTypeCount
         THEN "None"
    ELSE requested

\* Step 3, second part: choose the filter, warn on the fallback; gen_todo
\* is the order in which the dict video_details is iterated
SelectFilter ==
    /\ pc = "select_filter"
    /\ LET requested == RequestedFilter(video_type, video_details)
       IN  /\ is_short_filter' = EffectiveFilter(requested, detailed_videos)
           /\ st_warnings' =
                 IF requested = "True"
                       /\ ShortsCount(detailed_videos) < MinTypeCount
                 THEN st_warnings \cup {W_FEW_SHORTS}
                 ELSE IF requested = "False"
                       /\ LongformCount(detailed_videos) < MinTypeCount
                 THEN st_warnings \cup {W_FEW_LONG}
                 ELSE st_warnings
    /\ gen_todo' = SelectSeq(channel_videos,
                           LAMBDA id : id \in DOMAIN detailed_videos)
    /\ pc' = "generate"
    /\ UNCHANGED <<pageVars, genVars, inputVars, fetchVars, rankVars, st_errors,
                   benchmark_df, quantile_levels, benchmark_stats,
                   video_performance>>

\* the three "continue" tests of the loop of generate_historical_data
SkippedNoAgeTest(details, filter) ==
    \/ filter /= "None" /\ BoolStr(details.isShort) /= filter
    \/ details.age = InvalidDate

Skipped(details, filter) ==
    \/ filter /= "None" /\ BoolStr(details.isShort) /= filter
    \/ details.age = InvalidDate
    \/ details.age < MinAgeDays

\* days_to_generate = min(video_age_days, max_days)
DaysToGenerateUncapped(age, days) == age

DaysToGenerate(age, days) == Min(age, days)

\* one iteration of "for video_id, details in video_details.items()"
GenerateStep ==
    /\ pc = "generate"
    /\ gen_todo /= << >>
    /\ LET id == Head(gen_todo)
           details == detailed_videos[id]
           days == DaysToGenerate(details.age, max_days)
       IN  IF Skipped(details, is_short_filter)
           THEN UNCHANGED benchmark_df
           ELSE \E noise \in [1..days -> NoiseSet(details.viewCount)] :
                   benchmark_df' = benchmark_df \o
                       GenerateViewTrajectory(id, days, details.viewCount,
                                              details.isShort, noise)
    /\ gen_todo' = Tail(gen_todo)
    /\ UNCHANGED <<pageVars, pc, genVars, inputVars, fetchVars, rankVars, msgVars,
                   is_short_filter, quantile_levels, benchmark_stats,
                   video_performance>>

\* the return of generate_historical_data and "if benchmark_df.empty"
GenerateReturn ==
    /\ pc = "generate"
    /\ gen_todo = << >>
    /\ IF benchmark_df = << >> THEN Stop(<<E_NO_DATA>>)
       ELSE pc' = "benchmark" /\ UNCHANGED st_errors
    /\ UNCHANGED <<pageVars, genVars, inputVars, fetchVars, rankVars, st_warnings,
                   is_short_filter, gen_todo, benchmark_df, quantile_levels,
                   benchmark_stats, video_performance>>

\* ------------------------------------------------- states before a run
GenIdle == traj_args = NoArgs /\ traj_noise = << >> /\ traj_data = << >>

NoApi == [video |-> NoVideo, uploads |-> << >>, playlist |-> "uploads"]

NothingFetched ==
    /\ video_details = NoVideo
    /\ videos = << >>
    /\ next_page_token = NoToken
    /\ channel_videos = << >>
    /\ detailed_videos = << >>

NothingComputed ==
    /\ is_short_filter = "None"
    /\ gen_todo = << >>
    /\ benchmark_df = << >>
    /\ quantile_levels = NoLevels
    /\ benchmark_stats = << >>
    /\ video_performance = << >>
    /\ percentile = NoLabel
    /\ performance_color = ""
    /\ vs_benchmark_str = NoRatio

NothingShown == st_errors = << >> /\ st_warnings = {}

\* the sidebar at its default values: index=3, value=30, value=25
SidebarDefaults ==
    /\ video_type = "auto"
    /\ max_days = 30
    /\ max_videos = 50
    /\ percentile_range = 25

\* -------------------------------------------------- the channels of a run
\* the uploads of a channel of nShorts shorts followed by nLongs long-form
\* videos.  "young": every video is 2 days old and has no views.  "mixed":
\* within each type the ages cycle through 3, 2, 8, an invalid date and 5
\* days, with no views, but the last upload is 3 days old and has MaxViews
\* views.
MixedAges == <<3, 2, 8, InvalidDate, 5>>

Uploads(nShorts, nLongs, ages) ==
    [k \in 1..(nShorts + nLongs) |->
        [videoId |-> k,
         isShort |-> k <= nShorts,
         age |-> IF ages = "young" THEN 2
                 ELSE IF k = nShorts + nLongs THEN 3
                 ELSE IF k <= nShorts
                      THEN MixedAges[((k - 1) % Len(MixedAges)) + 1]
                      ELSE MixedAges[((k - nShorts - 1) % Len(MixedAges)) + 1],
         viewCount |-> IF ages = "mixed" /\ k = nShorts + nLongs
                       THEN MaxViews ELSE 0]]

\* the target video: the first short or the first long-form upload of the
\* channel, or a one-day-old long-form video that is not among the uploads
\* and has half of MaxViews views
Targets(uploads, nShorts) ==
    {uploads[1], uploads[nShorts + 1],
     [videoId |-> 0, isShort |-> FALSE, age |-> 1,
      viewCount |-> MaxViews \div 2]}

Init ==
    /\ pc = "extract"
    /\ GenIdle
    /\ video_type \in {"all", "long_form", "shorts", "auto"}
    /\ max_days \in {MinMaxDays, MinMaxDays + 1}
    /\ max_videos = MinNumVideos
    /\ percentile_range \in {10, 25}
    /\ \E nShorts \in {MinTypeCount - 1, MinTypeCount},
          nLongs \in {MinTypeCount - 1, MinTypeCount},
          ages \in {"young", "mixed"} :
          \E target \in Targets(Uploads(nShorts, nLongs, ages), nShorts) :
              api = [video |-> target,
                     uploads |-> Uploads(nShorts, nLongs, ages),
                     playlist |-> "uploads"]
    /\ NothingFetched
    /\ NothingComputed
    /\ NothingShown

Next ==
    \/ ExtractIds
    \/ FetchSingleVideo
    \/ FetchChannelVideos
    \/ FetchPage
    \/ FetchChannelReturn
    \/ FetchVideoDetails
    \/ SelectFilter
    \/ GenerateStep
    \/ GenerateReturn
    \/ CalculateBenchmarkStep
    \/ SimulateStep
    \/ RankStep

Spec == Init /\ [][Next]_vars

\* ------------------------------ direct calls of fetch_channel_videos
\* the largest max_videos of a direct call: more than one full page
MaxFetch == 7

InitFetch ==
    /\ pc = "fetch_channel"
    /\ GenIdle
    /\ video_type = "auto"
    /\ max_days = 30
    /\ percentile_range = 25
    /\ max_videos \in 1..MaxFetch
    /\ api = [NoApi EXCEPT !.playlist = "arbitrary"]
    /\ NothingFetched
    /\ NothingComputed
    /\ NothingShown

NextFetch ==
    \/ FetchChannelVideos
    \/ FetchPage
    \/ FetchChannelReturn

\* the call runs on while it has a next statement to execute
SpecFetch == InitFetch /\ [][NextFetch]_vars /\ WF_vars(NextFetch)

\* ---------------------------- direct calls of generate_view_trajectory
ViewChoices == {0, (MaxViews * 13) \div 20, MaxViews}

InitGen ==
    /\ pc = "gen_call"
    /\ traj_args \in [days : 1..MaxDays, total_views : ViewChoices,
                      is_short : BOOLEAN]
    /\ traj_noise = << >>
    /\ traj_data = << >>
    /\ SidebarDefaults
    /\ api = NoApi
    /\ NothingFetched
    /\ NothingComputed
    /\ NothingShown

CallGenerate ==
    /\ pc = "gen_call"
    /\ \E noise \in [1..traj_args.days -> NoiseSet(traj_args.total_views)] :
          /\ traj_noise' = noise
          /\ traj_data' = GenerateViewTrajectory("v", traj_args.days,
                             traj_args.total_views, traj_args.is_short, noise)
    /\ pc' = "gen_done"
    /\ UNCHANGED <<pageVars, traj_args, inputVars, fetchVars, rankVars, msgVars,
                   is_short_filter, gen_todo, benchmark_df, quantile_levels,
                   benchmark_stats, video_performance>>

NextGen == CallGenerate

SpecGen == InitGen /\ [][NextGen]_vars

\* --------------------------------- direct calls of calculate_benchmark
\* cumulative curves a reference video can have: at least 100 on day 0 and
\* 10 more on the next day
BenchCurves ==
    {<<v>> : v \in {100, 150, 400}} \cup {<<v, v + 10>> : v \in {100, 150, 400}}

\* the rows of the curves of videos 1..n, video after video
RECURSIVE RowsOf(_, _)
RowsOf(curves, n) ==
    IF n = 0 THEN << >>
    ELSE RowsOf(curves, n - 1) \o
         [k \in 1..Len(curves[n]) |->
             [videoId |-> n, day |-> k - 1,
              daily_views |-> IF k = 1 THEN curves[n][1]
                              ELSE curves[n][k] - curves[n][k - 1],
              cumulative_views |-> curves[n][k]]]

InitBench ==
    /\ pc = "benchmark"
    /\ GenIdle
    /\ video_type = "all"
    /\ max_days = 30
    /\ max_videos = 50
    /\ percentile_range \in SliderPercentiles \cup {50}
    /\ api = NoApi
    /\ NothingFetched
    /\ is_short_filter = "None"
    /\ gen_todo = << >>
    /\ \E n \in 1..MaxBenchVideos :
          \E curves \in [1..n -> BenchCurves] :
              benchmark_df = RowsOf(curves, n)
    /\ quantile_levels = NoLevels
    /\ benchmark_stats = << >>
    /\ video_performance = << >>
    /\ percentile = NoLabel
    /\ performance_color = ""
    /\ vs_benchmark_str = NoRatio
    /\ NothingShown

NextBench == CalculateBenchmarkStep

SpecBench == InitBench /\ [][NextBench]_vars

\* ------------------------------------- direct runs of the ranking step
\* band values, in hundredths of a view, that a band row is drawn from; 0 is
\* the degenerate value the ranking code guards against
RankBandValues == {0, 10000, 15000}

RankBandRows ==
    {r \in [day : {0}, lower_band : RankBandValues, median : RankBandValues,
            upper_band : RankBandValues, mean : {0}, count : {3}] :
        r.lower_band <= r.median /\ r.median <= r.upper_band}

InitRank ==
    /\ pc = "rank"
    /\ GenIdle
    /\ video_type = "all"
    /\ max_days = 30
    /\ max_videos = 50
    /\ percentile_range \in {10, 25, 45}
    /\ api = NoApi
    /\ video_details \in [videoId : {0}, isShort : {FALSE}, age : {0, 1, 5},
                          viewCount : {0, 100, 120, 150, 151}]
    /\ videos = << >>
    /\ next_page_token = NoToken
    /\ channel_videos = << >>
    /\ detailed_videos = << >>
    /\ is_short_filter = "None"
    /\ gen_todo = << >>
    /\ benchmark_df = << >>
    /\ quantile_levels = NoLevels
    /\ \E n \in 1..MaxRankRows :
          \E rows \in [1..n -> RankBandRows] :
              benchmark_stats =
                  [k \in 1..n |-> [rows[k] EXCEPT !.day = k - 1,
                                                  !.mean = rows[k].median]]
    /\ video_performance = << >>
    /\ percentile = NoLabel
    /\ performance_color = ""
    /\ vs_benchmark_str = NoRatio
    /\ NothingShown

NextRank == RankStep

SpecRank == InitRank /\ [][NextRank]_vars

\* ------------------------------------------------------------- claims
RECURSIVE SumDaily(_, _)
SumDaily(data, k) ==
    IF k = 0 THEN 0 ELSE SumDaily(data, k - 1) + data[k].daily_views

\* C1: the cumulative_views of the last returned point equals total_views,
\* whatever noise is drawn (the statement of the claim; the code adds noise
\* to the last day and floors it like every other day).
C1_LastEqualsTotal ==
    pc = "gen_done" =>
        traj_data[Len(traj_data)].cumulative_views = traj_args.total_views

\* C2: in every returned trajectory the emitted cumulative_views is at least
\* 100 on day 0 and grows by at least 10 from each day to the next.
C2_Monotone ==
    pc = "gen_done" =>
        /\ Len(traj_data) = traj_args.days
        /\ traj_data[1].cumulative_views >= 100
        /\ \A k \in 2..Len(traj_data) :
              traj_data[k].cumulative_views
                  >= traj_data[k - 1].cumulative_views + 10

\* a call where negative noise was drawn after day 0 and the floor of
\* "previous day + 10" decided the value, next to a day that grew by more
C2_Witness ==
    /\ pc = "gen_done"
    /\ traj_args.total_views > 0
    /\ \E k \in 2..Len(traj_data) :
          /\ traj_noise[k] < 0
          /\ traj_data[k].cumulative_views
                 = traj_data[k - 1].cumulative_views + 10
    /\ \E k \in 2..Len(traj_data) :
          traj_data[k].cumulative_views
              > traj_data[k - 1].cumulative_views + 10

\* C3: the emitted daily_views of days 0..day add up to the emitted
\* cumulative_views of that day, for every day of a returned trajectory
\* (the statement of the claim; the code truncates each value separately).
C3_DeltaConsistency ==
    pc = "gen_done" =>
        \A k \in 1..Len(traj_data) :
            SumDaily(traj_data, k) = traj_data[k].cumulative_views

\* C4: every band row has lower_band <= median <= upper_band, for every
\* percentile_range the slider offers.
C4_BandOrdering ==
    (pc = "simulate" /\ percentile_range \in SliderPercentiles) =>
        \A k \in 1..Len(benchmark_stats) :
            /\ benchmark_stats[k].count > 0
            /\ benchmark_stats[k].lower_band <= benchmark_stats[k].median
            /\ benchmark_stats[k].median <= benchmark_stats[k].upper_band

\* a band row over at least three samples, strictly ordered
C4_Witness ==
    /\ pc = "simulate"
    /\ percentile_range \in SliderPercentiles
    /\ \E k \in 1..Len(benchmark_stats) :
          /\ benchmark_stats[k].count >= 3
          /\ benchmark_stats[k].lower_band < benchmark_stats[k].median
          /\ benchmark_stats[k].median < benchmark_stats[k].upper_band

\* the sorted samples of the day of band row k
SamplesOfRow(k) ==
    SortSeq(ValuesAt(benchmark_df, benchmark_stats[k].day, Len(benchmark_df)))

\* C5 as stated: a parameter of 50 makes the aggregator use the quantile
\* levels 0.25 and 0.75, lowerQuantile = (100 - parameter) / 200.
C5_FullWidthConvention ==
    (pc = "simulate" /\ percentile_range = 50) =>
        quantile_levels = [lower |-> 25, upper |-> 75]

\* C5 as amended: the aggregator uses lowerQuantile = parameter / 100 and
\* upperQuantile = 1 - lowerQuantile; a parameter of 25 gives the levels 0.25
\* and 0.75 (over three samples: the midpoints of neighbouring samples), and
\* a parameter of 50 gives 0.5 for both bands, which then equal the median.
C5_HalfWidthConvention ==
    pc = "simulate" =>
        /\ quantile_levels.lower = percentile_range
        /\ quantile_levels.upper = 100 - quantile_levels.lower
        /\ \A k \in 1..Len(benchmark_stats) :
              /\ (percentile_range = 25 /\ benchmark_stats[k].count = 3) =>
                    /\ benchmark_stats[k].lower_band
                         = 50 * (SamplesOfRow(k)[1] + SamplesOfRow(k)[2])
                    /\ benchmark_stats[k].upper_band
                         = 50 * (SamplesOfRow(k)[2] + SamplesOfRow(k)[3])
              /\ percentile_range = 50 =>
                    /\ benchmark_stats[k].lower_band = benchmark_stats[k].median
                    /\ benchmark_stats[k].upper_band = benchmark_stats[k].median

\* a call with parameter 25 over three distinct samples on some day
C5_Witness ==
    /\ pc = "simulate"
    /\ percentile_range = 25
    /\ quantile_levels = [lower |-> 25, upper |-> 75]
    /\ \E k \in 1..Len(benchmark_stats) :
          /\ benchmark_stats[k].count = 3
          /\ benchmark_stats[k].lower_band < benchmark_stats[k].upper_band

\* C6: a view count equal to upper_band is ranked "Top"/green, one equal to
\* lower_band and below upper_band is ranked "Bottom"/red, and the
\* interpolated percentile/orange label is produced only for a view count
\* strictly between the two bands.
C6_RankBoundary ==
    pc = "done" =>
        LET views == video_details.viewCount * 100
        IN  /\ views = RankRow.upper_band =>
                  percentile.kind = "Top" /\ performance_color = "green"
            /\ (views = RankRow.lower_band /\ views < RankRow.upper_band) =>
                  percentile.kind = "Bottom" /\ performance_color = "red"
            /\ (percentile.kind = "th percentile"
                    \/ performance_color = "orange") =>
                  /\ RankRow.lower_band < views
                  /\ views < RankRow.upper_band

\* a ranked video whose view count equals the upper band of a band of
\* positive width
C6_Witness ==
    /\ pc = "done"
    /\ RankRow.median > 0
    /\ video_details.viewCount * 100 = RankRow.upper_band
    /\ RankRow.lower_band < RankRow.upper_band
    /\ percentile.kind = "Top"

AfterGenerate == {"benchmark", "simulate", "rank", "done"}

\* the filter the sidebar and the target video ask for, before any fallback
Requested == RequestedFilter(video_type, video_details)

\* the number of fetched videos of the requested type
RequestedCount ==
    IF Requested = "True" THEN ShortsCount(detailed_videos)
    ELSE LongformCount(detailed_videos)

\* the fetched videos with a valid publish date at least 3 days back
OldEnough == {k \in DOMAIN detailed_videos :
                 /\ detailed_videos[k].age /= InvalidDate
                 /\ detailed_videos[k].age >= 3}

\* the videos that have rows in benchmark_df
Contributors == {benchmark_df[k].videoId : k \in 1..Len(benchmark_df)}

FallbackWarnings == {W_FEW_SHORTS, W_FEW_LONG}

\* C8: when the requested filter is shorts-only or long-form-only (directly
\* or by auto-detect) and fewer than 5 fetched videos are of that type, a
\* warning is shown, the filter is dropped and the benchmark is generated
\* from the fetched videos of both types; with 5 or more the filter is kept
\* and only that type contributes.  The run is not stopped by the filter
\* step: after a fallback it stops only with the empty-benchmark error, when
\* no fetched video of either type is old enough.
C8_FilterFallback ==
    (pc \in AfterGenerate \cup {"generate", "stopped"}
        /\ (pc = "stopped" => st_errors[Len(st_errors)] = E_NO_DATA)
        /\ Requested /= "None") =>
        IF RequestedCount < 5
        THEN /\ is_short_filter = "None"
             /\ (IF Requested = "True" THEN W_FEW_SHORTS ELSE W_FEW_LONG)
                    \in st_warnings
             /\ (pc /= "generate" => Contributors = OldEnough)
             /\ (pc = "stopped" => OldEnough = {})
        ELSE /\ is_short_filter = Requested
             /\ st_warnings \cap FallbackWarnings = {}
             /\ (pc /= "generate" =>
                    Contributors =
                        {k \in OldEnough :
                            BoolStr(detailed_videos[k].isShort) = Requested})

\* a finished run that asked for shorts, found four, warned, and built its
\* band from shorts and long-form videos alike
C8_Witness ==
    /\ pc = "done"
    /\ Requested = "True"
    /\ ShortsCount(detailed_videos) = MinTypeCount - 1
    /\ W_FEW_SHORTS \in st_warnings
    /\ is_short_filter = "None"
    /\ \E a \in Contributors, b \in Contributors :
          detailed_videos[a].isShort /\ ~detailed_videos[b].isShort
    /\ benchmark_stats /= << >>

ResolutionErrors ==
    {E_CHANNEL_ID, E_VIDEO_ID, E_FETCH_VIDEO, E_FETCH_CHANNEL,
     E_RESOLVE, E_VIDEO_DETAILS, E_INVALID_CHANNEL, E_YT_DATA}

\* C9: no video younger than 3 days has rows in benchmark_df; a run goes on
\* to calculate_benchmark only with at least one reference trajectory, and a
\* run stopped for lack of one has computed no band, no projection and no
\* rank, and shows an error that is none of the resolution errors.
C9_EmptyBenchmarkHalts ==
    /\ \A k \in Contributors :
          /\ detailed_videos[k].age >= 3
          /\ ~Skipped(detailed_videos[k], is_short_filter)
    /\ pc \in AfterGenerate => benchmark_df /= << >>
    /\ (pc = "generate" /\ gen_todo = << >>) =>
          Contributors = {k \in DOMAIN detailed_videos :
                             ~Skipped(detailed_videos[k], is_short_filter)}
    /\ (pc = "stopped" /\ E_NO_DATA \in {st_errors[k] : k \in DOMAIN st_errors}) =>
          /\ st_errors = <<E_NO_DATA>>
          /\ E_NO_DATA \notin ResolutionErrors
          /\ benchmark_df = << >>
          /\ \A k \in DOMAIN detailed_videos :
                Skipped(detailed_videos[k], is_short_filter)
          /\ quantile_levels = NoLevels
          /\ benchmark_stats = << >>
          /\ video_performance = << >>
          /\ percentile = NoLabel
          /\ vs_benchmark_str = NoRatio

\* a run over a channel whose fetched uploads are all too young, stopped
\* with the empty-benchmark error
C9_Witness ==
    /\ pc = "stopped"
    /\ st_errors = <<E_NO_DATA>>
    /\ detailed_videos /= << >>
    /\ \A k \in DOMAIN detailed_videos : detailed_videos[k].age = 2
    /\ benchmark_stats = << >>

\* C10: the target video never has rows in benchmark_df (the statement of
\* the claim; the code passes every fetched upload to the generator).
C10_TargetExcluded ==
    pc \in AfterGenerate => video_details.videoId \notin Contributors

\* the stages of a run before the channel's uploads have been listed
LookupStages == {"extract", "fetch_video", "fetch_channel", "fetch_pages"}

\* C11: a run that reports one of the errors of id extraction, channel
\* resolution, target-video lookup or channel lookup is stopped and has
\* selected no filter, generated no trajectory, aggregated no band, made no
\* projection and no ranking; a run that is past the lookups has reported
\* no error and holds the target video and a non-empty list of uploads.
C11_LookupFailureHalts ==
    /\ (\E k \in DOMAIN st_errors : st_errors[k] \in ResolutionErrors) =>
          /\ pc = "stopped"
          /\ NothingComputed
    /\ pc \notin LookupStages \cup {"stopped"} =>
          /\ st_errors = << >>
          /\ video_details /= NoVideo
          /\ channel_videos /= << >>

\* a run whose target video was found and whose channel lookup failed
C11_Witness ==
    /\ pc = "stopped"
    /\ video_details /= NoVideo
    /\ st_errors[Len(st_errors)] = E_FETCH_CHANNEL
    /\ channel_videos = << >>
    /\ NothingComputed

\* the stages of a run after fetch_video_details has returned
AfterDetails == AfterGenerate \cup {"select_filter", "generate"}

\* the ids fetch_video_details returned details for
Fetched == DOMAIN detailed_videos

\* the fetched videos generate_historical_data does not skip
NotSkipped == {id \in Fetched : ~Skipped(detailed_videos[id], is_short_filter)}

C13_CurrentDayExact ==
    pc \in {"rank", "done"} =>
        \A k \in DOMAIN video_performance :
            video_performance[k].day
                = (IF video_details.age < 2 THEN 2 ELSE video_details.age) =>
                video_performance[k].cumulative_views
                    = video_details.viewCount

\* the list fetch_channel_videos returned has at most max_videos entries,
\* and fewer only if the last response carried no next-page token
ReturnedCount ==
    pc = "fetch_details" =>
        /\ Len(channel_videos) <= max_videos
        /\ Len(channel_videos) < max_videos => next_page_token = NoToken

\* C14: on return the list has at most max_videos entries, fewer than
\* max_videos only if the last response carried no next-page token, and
\* the loop of page requests ends, whatever the responses are (the
\* statement of the claim; the code requests the next page for as long as
\* the responses carry a token and too few items).
C14_PagingEnds ==
    /\ []ReturnedCount
    /\ <>(pc \notin {"fetch_channel", "fetch_pages"})

\* C15: in the series simulate_video_performance returns, with ageDays the
\* video's age raised to at least 2, the rows have the day values 0, 1, 2,
\* ... in this order; every row with day <= ageDays has projected = False;
\* every row with day > ageDays has projected = True, exists only if the
\* horizon max_days is greater than ageDays, has a day that is at most
\* max_days and at most len(band) - 1, and has as cumulative_views the
\* truncated product of the band median of that day and the performance
\* ratio (the current views over the band median at ageDays, or 1.0).
C15_ProjectionRows ==
    pc \in {"rank", "done"} =>
        LET ageDays == IF video_details.age < 2 THEN 2 ELSE video_details.age
            scaled == ageDays < Len(benchmark_stats)
                         /\ benchmark_stats[ageDays + 1].median > 0
        IN  /\ video_performance /= << >>
            /\ \A k \in DOMAIN video_performance :
                  LET row == video_performance[k]
                  IN  /\ row.day = k - 1
                      /\ row.day <= ageDays => ~row.projected
                      /\ row.day > ageDays =>
                            /\ row.projected
                            /\ max_days > ageDays
                            /\ row.day <= max_days
                            /\ row.day <= Len(benchmark_stats) - 1
                            /\ row.cumulative_views =
                                  IF scaled
                                  THEN (benchmark_stats[row.day + 1].median
                                            * video_details.viewCount)
                                       \div benchmark_stats[ageDays + 1].median
                                  ELSE benchmark_stats[row.day + 1].median
                                       \div 100

\* the series of a video published yesterday whose views are not the band
\* median of day 2: three rows of the past, projected rows after them
C15_Witness ==
    /\ pc = "done"
    /\ video_details.age = 1
    /\ Len(video_performance) > 3
    /\ ~video_performance[3].projected
    /\ video_performance[4].projected
    /\ video_details.viewCount * 100 /= benchmark_stats[3].median
    /\ video_performance[4].cumulative_views
           /= benchmark_stats[4].median \div 100

\* the rows of benchmark_df that belong to one video, in order
TrajectoryOf(id) == SelectSeq(benchmark_df, LAMBDA row : row.videoId = id)

\* C16: every trajectory generate_historical_data has put into
\* benchmark_df has exactly min(age, max_days) points, age being the age in
\* days of its video, with the day values 0, 1, ..., length - 1 in this
\* order; none is empty.
C16_TrajectoryLength ==
    \A id \in Contributors :
        LET trajectory == TrajectoryOf(id)
            age == detailed_videos[id].age
        IN  /\ Len(trajectory) = (IF age < max_days THEN age ELSE max_days)
            /\ Len(trajectory) >= 1
            /\ \A k \in DOMAIN trajectory : trajectory[k].day = k - 1

\* a benchmark_df with the trajectory of a video older than max_days days,
\* cut to max_days points, and that of a younger one, as long as its age
C16_Witness ==
    /\ pc \in AfterGenerate
    /\ \E id \in Contributors :
          /\ detailed_videos[id].age > max_days
          /\ Len(TrajectoryOf(id)) = max_days
    /\ \E id \in Contributors :
          /\ detailed_videos[id].age < max_days
          /\ Len(TrajectoryOf(id)) = detailed_videos[id].age

\* the stages of a run after calculate_benchmark has returned
AfterBenchmark == {"simulate", "rank", "done"}

\* C17: the band calculate_benchmark returns in a run is not empty, its
\* rows are in ascending order of day with the day values 0, 1, ..., N - 1
\* and no gap, so that the row at position d is the row of day d, and the
\* sample count of a row is never greater than that of the row before it.
C17_BandDaysDense ==
    pc \in AfterBenchmark =>
        /\ benchmark_stats /= << >>
        /\ \A k \in DOMAIN benchmark_stats :
              /\ benchmark_stats[k].day = k - 1
              /\ benchmark_stats[k].count
                    = Cardinality({id \in Contributors :
                                      Len(TrajectoryOf(id)) >= k})
        /\ \A k \in 2..Len(benchmark_stats) :
              benchmark_stats[k].count <= benchmark_stats[k - 1].count

\* a band over trajectories of different lengths: the sample count falls
\* after day 2 and the last row has fewer samples than the first
C17_Witness ==
    /\ pc \in AfterBenchmark
    /\ Len(benchmark_stats) > 3
    /\ benchmark_stats[3].count >= 3
    /\ benchmark_stats[4].count < benchmark_stats[3].count
    /\ benchmark_stats[Len(benchmark_stats)].count >= 1

\* C18: in a run that reaches the ranking step the label "Average" with
\* the colour gray and the ratio "N/A" are never produced: the label is
\* Top/green, Bottom/red or the interpolated percentile/orange, the latter
\* exactly for a view count strictly between the bands (which are then a
\* positive width apart), and the ratio is a percentage, because every
\* cumulative value of a generated trajectory, and with it every band
\* value and median, is at least 100.
C18_NoDegenerateOutput ==
    /\ \A k \in DOMAIN benchmark_df : benchmark_df[k].cumulative_views >= 100
    /\ pc \in AfterBenchmark =>
          \A k \in DOMAIN benchmark_stats :
              /\ benchmark_stats[k].lower_band >= 100 * 100
              /\ benchmark_stats[k].median >= 100 * 100
    /\ pc = "done" =>
          LET views == video_details.viewCount * 100
              between == RankRow.lower_band < views
                            /\ views < RankRow.upper_band
          IN  /\ <<percentile.kind, performance_color>>
                    \in {<<"Top", "green">>, <<"Bottom", "red">>,
                         <<"th percentile", "orange">>}
              /\ percentile.kind = "th percentile" <=> between
              /\ between => RankRow.upper_band - RankRow.lower_band > 0
              /\ vs_benchmark_str.kind = "pct vs typical"

\* a finished run whose target video lies strictly between the bands and
\* got an interpolated percentile and a percentage against the median
C18_Witness ==
    /\ pc = "done"
    /\ RankRow.lower_band < video_details.viewCount * 100
    /\ video_details.viewCount * 100 < RankRow.upper_band
    /\ percentile.kind = "th percentile"
    /\ performance_color = "orange"
    /\ vs_benchmark_str.kind = "pct vs typical"

====
